---- MODULE Spec2Model ----
(***************************************************************************)
(* Model of forge's `build` command (crates/forge/bin/cmd/build.rs) and of *)
(* the zkSync chain-parameter helpers (crates/common/src/zk_utils/mod.rs). *)
(*                                                                         *)
(* Strings are sequences of one-character strings, byte vectors are        *)
(* sequences of 0..255, and u32 / U256 values are little-endian sequences  *)
(* of 16-bit limbs (TLC integers stop at 2^31 - 1).                        *)
(***************************************************************************)
EXTENDS Integers, Sequences, FiniteSets, TLC

VARIABLES
    call,           \* zk_utils: the last helper call, [fn, arg, ret]
    pc,             \* build: position inside the CLI entry / BuildArgs::run
    argv,           \* build: the flags given on the command line
    args,           \* build: the parsed BuildArgs (self)
    config,         \* build: `config` local of run
    project,        \* build: `project` local of run
    installCalls,   \* build: calls of install_missing_dependencies in this run
    installed,      \* build: what install_missing_dependencies returned
    remapAtCheck,   \* build: config.auto_detect_remappings as read at line 83
    reloaded,       \* build: load_config (line 86) was executed in this run
    rematerialized, \* build: config.project() (line 87) was executed in this run
    compiler,       \* build: `compiler` local (primary pipeline settings)
    zk_compiler,    \* build: `zk_compiler` local (secondary pipeline settings)
    output,         \* build: `output` local (primary pass output)
    zk_output,      \* build: `zk_output` local (secondary pass output)
    passes,         \* build: log of compiler invocations of this run
    stdout,         \* build: documents printed by this run
    result          \* build: outcome of parsing / value returned by run

utilVars == <<call>>
buildVars == <<pc, argv, args, config, project, installCalls, installed, remapAtCheck, reloaded,
               rematerialized, compiler, zk_compiler, output, zk_output,
               passes, stdout, result>>
vars == <<call, pc, argv, args, config, project, installCalls, installed, remapAtCheck, reloaded,
          rematerialized, compiler, zk_compiler, output, zk_output,
          passes, stdout, result>>

None == [tag |-> "None"]
Some(v) == [tag |-> "Some", val |-> v]
Ok(v) == [tag |-> "Ok", val |-> v]
Err(m) == [tag |-> "Err", msg |-> m]
Panic(m) == [tag |-> "Panic", msg |-> m]

(***************************************************************************)
(* Character helpers                                                       *)
(***************************************************************************)
UpperChars == <<"A","B","C","D","E","F","G","H","I","J","K","L","M",
                "N","O","P","Q","R","S","T","U","V","W","X","Y","Z">>
LowerChars == <<"a","b","c","d","e","f","g","h","i","j","k","l","m",
                "n","o","p","q","r","s","t","u","v","w","x","y","z">>
DigitChars == <<"0","1","2","3","4","5","6","7","8","9">>

Range(s) == {s[i] : i \in 1..Len(s)}
IsUpper(c) == c \in Range(UpperChars)
IsLower(c) == c \in Range(LowerChars)
IsDigit(c) == c \in Range(DigitChars)
IsAlpha(c) == IsUpper(c) \/ IsLower(c)
PosIn(c, s) == CHOOSE i \in 1..Len(s) : s[i] = c
ToLowerChar(c) == IF IsUpper(c) THEN LowerChars[PosIn(c, UpperChars)] ELSE c
ToLower(s) == [i \in 1..Len(s) |-> ToLowerChar(s[i])]
DigitVal(c) == PosIn(c, DigitChars) - 1

\* index of the first character of s that is in set cs, Len(s)+1 when none
FirstIn(s, cs) ==
    IF \E i \in 1..Len(s) : s[i] \in cs
    THEN CHOOSE i \in 1..Len(s) : s[i] \in cs /\ \A j \in 1..(i-1) : s[j] \notin cs
    ELSE Len(s) + 1
\* index of the last character of s that is in set cs, 0 when none
LastIn(s, cs) ==
    IF \E i \in 1..Len(s) : s[i] \in cs
    THEN CHOOSE i \in 1..Len(s) : s[i] \in cs /\ \A j \in (i+1)..Len(s) : s[j] \notin cs
    ELSE 0
Slice(s, a, b) == IF a > b THEN <<>> ELSE SubSeq(s, a, b)

RECURSIVE ToDec(_)
\* `{}` formatting of an unsigned integer
ToDec(n) == IF n < 10 THEN <<DigitChars[n + 1]>>
            ELSE ToDec(n \div 10) \o <<DigitChars[(n % 10) + 1]>>

(***************************************************************************)
(* url::Url::parse, restricted to what get_url_with_port reads: scheme(),  *)
(* host_str(), port() and path().  Hosts are domain names: IPv4/IPv6       *)
(* hosts, percent-encoding and dot-segment removal are outside the         *)
(* generated inputs.                                                       *)
(***************************************************************************)
http == <<"h","t","t","p">>
https == <<"h","t","t","p","s">>
ws == <<"w","s">>
wss == <<"w","s","s">>
ftp == <<"f","t","p">>

\* default port of the special schemes; port() reports None for it
IsSpecial(scheme) == scheme \in {http, https, ws, wss, ftp}
DefaultPort(scheme) ==
    CASE scheme \in {http, ws} -> 80
      [] scheme \in {https, wss} -> 443
      [] scheme = ftp -> 21

RECURSIVE ParsePortFrom(_, _, _)
\* decimal port, at most u16::MAX
ParsePortFrom(s, i, acc) ==
    IF i > Len(s) THEN Ok(acc)
    ELSE IF ~IsDigit(s[i]) THEN Err("InvalidPort")
    ELSE LET n == acc * 10 + DigitVal(s[i])
         IN IF n > 65535 THEN Err("InvalidPort") ELSE ParsePortFrom(s, i + 1, n)

IsSchemeChar(c) == IsAlpha(c) \/ IsDigit(c) \/ c \in {"+", "-", "."}

\* authority [userinfo@]host[:port] followed by path, query and fragment
ParseAuthority(scheme, a) ==
    LET special == IsSpecial(scheme)
        aEnd == FirstIn(a, {"/", "?", "#"})
        auth == Slice(a, 1, aEnd - 1)
        tail == Slice(a, aEnd, Len(a))
        at == LastIn(auth, {"@"})
        hostport == Slice(auth, at + 1, Len(auth))
        hc == FirstIn(hostport, {":"})
        hostRaw == Slice(hostport, 1, hc - 1)
        portStr == Slice(hostport, hc + 1, Len(hostport))
        portRes == IF portStr = <<>> THEN Ok(None)
                   ELSE LET r == ParsePortFrom(portStr, 1, 0)
                        IN IF r.tag = "Err" THEN r
                           ELSE IF special /\ r.val = DefaultPort(scheme)
                                THEN Ok(None) ELSE Ok(Some(r.val))
        pathRaw == Slice(tail, 1, FirstIn(tail, {"?", "#"}) - 1)
        path == IF special /\ pathRaw = <<>> THEN <<"/">> ELSE pathRaw
    IN  IF portRes.tag = "Err" THEN portRes
        ELSE IF hostRaw = <<>> /\ (special \/ at > 0 \/ portRes.val.tag = "Some")
             THEN Err("EmptyHost")
        ELSE Ok([scheme |-> scheme,
                 host |-> IF hostRaw = <<>> THEN None
                          ELSE Some(IF special THEN ToLower(hostRaw) ELSE hostRaw),
                 port |-> portRes.val,
                 path |-> path])

RECURSIVE SkipSlashes(_)
SkipSlashes(s) == IF s # <<>> /\ Head(s) = "/" THEN SkipSlashes(Tail(s)) ELSE s

UrlParse(s) ==
    LET colon == FirstIn(s, {":"})
        schemeRaw == Slice(s, 1, colon - 1)
        rest == Slice(s, colon + 1, Len(s))
        scheme == ToLower(schemeRaw)
    IN  IF \/ colon > Len(s)
           \/ schemeRaw = <<>>
           \/ ~IsAlpha(schemeRaw[1])
           \/ \E i \in 1..Len(schemeRaw) : ~IsSchemeChar(schemeRaw[i])
        THEN Err("RelativeUrlWithoutBase")
        ELSE IF IsSpecial(scheme) THEN ParseAuthority(scheme, SkipSlashes(rest))
        ELSE IF Len(rest) >= 2 /\ SubSeq(rest, 1, 2) = <<"/", "/">>
             THEN ParseAuthority(scheme, Slice(rest, 3, Len(rest)))
        ELSE Ok([scheme |-> scheme, host |-> None, port |-> None,
                 path |-> Slice(rest, 1, FirstIn(rest, {"?", "#"}) - 1)])

(***************************************************************************)
(* zk_utils::get_url_with_port, get_rpc_url                                *)
(***************************************************************************)
get_url_with_port(url_str) ==
    LET parsed == UrlParse(url_str)
    IN  IF parsed.tag = "Err" THEN None
        ELSE LET url == parsed.val
                 default_port == url.scheme = https /\ url.port.tag = "None"
                 port == IF url.port.tag = "Some" THEN url.port.val
                         ELSE IF default_port THEN 443 ELSE 80
             IN  IF url.host.tag = "None" THEN None
                 ELSE Some(url.scheme \o <<":", "/", "/">> \o url.host.val
                           \o <<":">> \o ToDec(port) \o url.path)

get_rpc_url(rpc_url) ==
    IF rpc_url.tag = "Some"
    THEN LET r == get_url_with_port(rpc_url.val)
         IN IF r.tag = "None" THEN Err("Invalid RPC_URL") ELSE Ok(r.val)
    ELSE Err("RPC URL was not provided")

(***************************************************************************)
(* hex::decode, H256::from_slice, zk_utils::get_private_key, get_chain     *)
(***************************************************************************)
HexLower == <<"a","b","c","d","e","f">>
HexUpper == <<"A","B","C","D","E","F">>
IsHexChar(c) == IsDigit(c) \/ c \in Range(HexLower) \/ c \in Range(HexUpper)
HexVal(c) == IF IsDigit(c) THEN DigitVal(c)
             ELSE IF c \in Range(HexLower) THEN 9 + PosIn(c, HexLower)
             ELSE 9 + PosIn(c, HexUpper)

hex_decode(s) ==
    IF Len(s) % 2 # 0 THEN Err("OddLength")
    ELSE IF \E i \in 1..Len(s) : ~IsHexChar(s[i]) THEN Err("InvalidHexCharacter")
    ELSE Ok([i \in 1..(Len(s) \div 2) |-> 16 * HexVal(s[2*i - 1]) + HexVal(s[2*i])])

H256Bytes == 256 \div 8

\* H256::from_slice asserts src.len() == 32 and aborts the caller otherwise
H256_from_slice(src) ==
    IF Len(src) = H256Bytes THEN Ok(src) ELSE Panic("assertion failed: src.len() == 32")

get_private_key(private_key) ==
    IF private_key.tag = "Some"
    THEN LET val == hex_decode(private_key.val)
         IN IF val.tag = "Err"
            THEN Err("Error parsing private key: " \o val.msg)
            ELSE H256_from_slice(val.val)
    ELSE Err("Private key was not provided")

get_chain(chain) ==
    IF chain.tag = "Some" THEN Ok(chain.val) ELSE Err("Chain was not provided")

(***************************************************************************)
(* U256 / u32 arithmetic on 16-bit limbs, fix_l2_gas_price, fix_l2_gas_limit*)
(***************************************************************************)
LimbBase == 2^16
U256Limbs == 256 \div 16
U32Limbs == 32 \div 16

\* U256::from of a value below 2^31
U256_from_int(n) ==
    [i \in 1..U256Limbs |-> IF i = 1 THEN n % LimbBase
                            ELSE IF i = 2 THEN n \div LimbBase ELSE 0]
\* U256::from(u32): zero extension
U256_from_u32(w) == [i \in 1..U256Limbs |-> IF i <= Len(w) THEN w[i] ELSE 0]

u32_MAX == [i \in 1..U32Limbs |-> LimbBase - 1]
\* logical shift right by one bit
Shr1(w) == [i \in 1..Len(w) |->
              (w[i] \div 2) + (IF i < Len(w) THEN (w[i + 1] % 2) * (LimbBase \div 2) ELSE 0)]

\* Ord for U256: compare from the most significant limb down
U256_lt(a, b) ==
    \E i \in 1..U256Limbs : a[i] < b[i] /\ \A j \in (i + 1)..U256Limbs : a[j] = b[j]
U256_le(a, b) == a = b \/ U256_lt(a, b)
U256_max(a, b) == IF U256_lt(b, a) THEN a ELSE b
U256_min(a, b) == IF U256_lt(b, a) THEN b ELSE a

fix_l2_gas_price_low_floor(gas_price) == U256_max(gas_price, U256_from_int(26000000))
fix_l2_gas_price(gas_price) == U256_max(gas_price, U256_from_int(260000000))

fix_l2_gas_limit_unshifted(gas_limit) == U256_min(gas_limit, U256_from_u32(u32_MAX))
fix_l2_gas_limit(gas_limit) == U256_min(gas_limit, U256_from_u32(Shr1(u32_MAX)))

(***************************************************************************)
(* Inputs of the zk_utils helpers                                          *)
(***************************************************************************)
\* longest private-key string tried (64 hex digits make 32 bytes)
MaxKeyChars == 66
\* how far around each limb boundary the gas samples reach
Near == 1

SchemeParts == {<<>>, http, https, wss, <<"H","T","T","P","S">>, <<"f","o","o">>}
SepParts == {<<>>, <<":">>, <<":","/","/">>}
UserParts == {<<>>, <<"u","@">>}
HostParts == {<<>>, <<"h">>, <<"N","o","d","e",".","i","o">>}
PortParts == {<<>>, <<":">>, <<":","8","0">>, <<":","4","4","3">>,
              <<":","8","5","4","5">>, <<":","7","0","0","0","0">>, <<":","x">>}
PathParts == {<<>>, <<"/">>, <<"/","p">>}
QueryParts == {<<>>, <<"?","q">>}

\* scheme, separator, userinfo, host, port, path, query; a string without a
\* separator has no scheme part either (the `localhost:8545` shape)
UrlParts == {u \in [scheme : SchemeParts, sep : SepParts, user : UserParts,
                    host : HostParts, port : PortParts, path : PathParts,
                    query : QueryParts] : u.sep = <<>> => u.scheme = <<>>}
UrlString(u) == u.scheme \o u.sep \o u.user \o u.host \o u.port \o u.path \o u.query

Fill(c, n) == [i \in 1..n |-> c]
KeyStrings ==
    UNION {{Fill(c, n),
            <<"0","x">> \o Fill(c, n),
            Fill(c, n) \o <<"g">>,
            <<"z">> \o Fill(c, n)} : c \in {"0", "a", "F"}, n \in 0..MaxKeyChars}

Chains == {1, 270, 324}

LowLimbs == (0..Near) \cup ((18688 - Near)..(18688 + Near))
            \cup ((LimbBase - 1 - Near)..(LimbBase - 1))
MidLimbs == (0..Near) \cup ((3967 - Near)..(3967 + Near))
            \cup ((LimbBase \div 2 - 1 - Near)..(LimbBase \div 2 + Near))
            \cup ((LimbBase - 1 - Near)..(LimbBase - 1))
HighLimbs == {0, 1, LimbBase - 1}
U256Samples ==
    {[i \in 1..U256Limbs |-> IF i = 1 THEN l1 ELSE IF i = 2 THEN l2
                             ELSE IF i = k THEN h ELSE 0] :
        l1 \in LowLimbs, l2 \in MidLimbs, k \in {3, U256Limbs}, h \in HighLimbs}

(***************************************************************************)
(* zk_utils: one action per helper, each called once from the idle state   *)
(***************************************************************************)
NoCall == [fn |-> "none"]

CallGetUrlWithPort ==
    /\ call = NoCall
    /\ \E u \in UrlParts :
         call' = [fn |-> "get_url_with_port", parts |-> u, arg |-> UrlString(u),
                  ret |-> get_url_with_port(UrlString(u))]
    /\ UNCHANGED buildVars

CallGetRpcUrl ==
    /\ call = NoCall
    /\ \E r \in {None} \cup {Some(UrlString(u)) : u \in UrlParts} :
         call' = [fn |-> "get_rpc_url", arg |-> r, ret |-> get_rpc_url(r)]
    /\ UNCHANGED buildVars

CallGetPrivateKey ==
    /\ call = NoCall
    /\ \E k \in {None} \cup {Some(s) : s \in KeyStrings} :
         call' = [fn |-> "get_private_key", arg |-> k, ret |-> get_private_key(k)]
    /\ UNCHANGED buildVars

CallGetChain ==
    /\ call = NoCall
    /\ \E c \in {None} \cup {Some(id) : id \in Chains} :
         call' = [fn |-> "get_chain", arg |-> c, ret |-> get_chain(c)]
    /\ UNCHANGED buildVars

CallFixL2GasPrice ==
    /\ call = NoCall
    /\ \E x \in U256Samples :
         call' = [fn |-> "fix_l2_gas_price", arg |-> x, ret |-> fix_l2_gas_price(x)]
    /\ UNCHANGED buildVars

CallFixL2GasLimit ==
    /\ call = NoCall
    /\ \E x \in U256Samples :
         call' = [fn |-> "fix_l2_gas_limit", arg |-> x, ret |-> fix_l2_gas_limit(x)]
    /\ UNCHANGED buildVars

NextUtils ==
    \/ CallGetUrlWithPort
    \/ CallGetRpcUrl
    \/ CallGetPrivateKey
    \/ CallGetChain
    \/ CallFixL2GasPrice
    \/ CallFixL2GasLimit

(***************************************************************************)
(* forge build: command line, BuildArgs::run                               *)
(***************************************************************************)
\* longest --skip list tried
MaxSkip == 2

SkipBuildFilter == {"tests", "scripts", "custom"}
RECURSIVE SeqsUpTo(_, _)
SeqsUpTo(S, n) ==
    IF n = 0 THEN {<<>>}
    ELSE LET shorter == SeqsUpTo(S, n - 1)
         IN shorter \cup {Append(q, e) : q \in {r \in shorter : Len(r) = n - 1}, e \in S}

\* `--skip` takes one or more values (num_args(1..)); absent it is None
SkipOptions == {None} \cup {Some(q) : q \in SeqsUpTo(SkipBuildFilter, MaxSkip) \ {<<>>}}

Argv == [names : BOOLEAN, sizes : BOOLEAN, skip : SkipOptions,
         format_json : BOOLEAN, silent : BOOLEAN]

ClapConflictNever(a) == FALSE
\* #[clap(long, conflicts_with = "silent")] on format_json
ClapConflict(a) == a.format_json /\ a.silent

NeedsReconfigureEither(inst, cfg) == inst \/ cfg.auto_detect_remappings
\* the condition of the `if` at lines 82-83
NeedsReconfigure(inst, cfg) == inst /\ cfg.auto_detect_remappings

ZkEnabledAlways(cfg) == TRUE
\* the condition of the `if` at line 106
ZkEnabled(cfg) == cfg.zksync

\* what ProjectCompiler::new().print_names(..).print_sizes(..).quiet(..).bail(..) holds
NewCompiler(a) ==
    [print_names |-> a.names, print_sizes |-> a.sizes,
     quiet |-> a.format_json, bail |-> ~a.format_json, filter |-> None]

Doc(out) == [fmt |-> "pretty_json", of |-> out]

EmitJsonNever(a, out, so) == so
\* if self.format_json { println!(to_string_pretty(..)) }
EmitJson(a, out, so) == IF a.format_json THEN Append(so, Doc(out)) ELSE so

ReturnSecondary(out, zk) == IF zk.tag = "Some" THEN Ok(zk.val) ELSE Ok(out.val)
\* Ok(output)
ReturnValue(out, zk) == Ok(out.val)

Init ==
    /\ call = NoCall
    /\ pc = "parse"
    /\ argv = None
    /\ args = None
    /\ config = None
    /\ project = None
    /\ installCalls = 0
    /\ installed = FALSE
    /\ remapAtCheck = FALSE
    /\ reloaded = FALSE
    /\ rematerialized = FALSE
    /\ compiler = None
    /\ zk_compiler = None
    /\ output = None
    /\ zk_output = None
    /\ passes = <<>>
    /\ stdout = <<>>
    /\ result = None

\* an early return through `?`
Fail(kind) == /\ result' = Err(kind)
              /\ pc' = "done"

\* BuildArgs::try_parse_from: clap rejects conflicting flags before run is called
Parse ==
    /\ pc = "parse"
    /\ \E a \in Argv :
         /\ argv' = Some(a)
         /\ IF ClapConflict(a)
            THEN /\ result' = Err("ArgumentConflict")
                 /\ pc' = "rejected"
                 /\ UNCHANGED args
            ELSE /\ args' = Some(a)
                 /\ pc' = "load"
                 /\ UNCHANGED result
    /\ UNCHANGED <<call, config, project, installCalls, installed, remapAtCheck, reloaded,
                   rematerialized, compiler, zk_compiler, output, zk_output, passes, stdout>>

\* line 79: let mut config = self.try_load_config_emit_warnings()?;
LoadConfig ==
    /\ pc = "load"
    /\ \/ /\ \E adr \in BOOLEAN, zk \in BOOLEAN :
               config' = Some([auto_detect_remappings |-> adr, zksync |-> zk, gen |-> 0])
          /\ pc' = "project"
          /\ UNCHANGED result
       \/ /\ Fail("ConfigError")
          /\ UNCHANGED config
    /\ UNCHANGED <<call, argv, args, project, installCalls, installed, remapAtCheck, reloaded,
                   rematerialized, compiler, zk_compiler, output, zk_output, passes, stdout>>

\* line 80: let mut project = config.project()?;
MaterializeProject ==
    /\ pc = "project"
    /\ \/ /\ project' = Some([of_config |-> config.val.gen])
          /\ pc' = "install"
          /\ UNCHANGED result
       \/ /\ Fail("ProjectError")
          /\ UNCHANGED project
    /\ UNCHANGED <<call, argv, args, config, installCalls, installed, remapAtCheck, reloaded,
                   rematerialized, compiler, zk_compiler, output, zk_output, passes, stdout>>

\* lines 82-84: install_missing_dependencies(&mut config, silent) && auto_detect_remappings
InstallMissingDependencies ==
    /\ pc = "install"
    /\ \E inst \in BOOLEAN :
         /\ installed' = inst
         /\ remapAtCheck' = config.val.auto_detect_remappings
         /\ pc' = IF NeedsReconfigure(inst, config.val) THEN "reload" ELSE "builder"
    /\ installCalls' = installCalls + 1
    /\ UNCHANGED <<call, argv, args, config, project, reloaded, rematerialized, compiler,
                   zk_compiler, output, zk_output, passes, stdout, result>>

\* line 86: config = self.load_config();
ReloadConfig ==
    /\ pc = "reload"
    /\ \E adr \in BOOLEAN, zk \in BOOLEAN :
         config' = Some([auto_detect_remappings |-> adr, zksync |-> zk,
                         gen |-> config.val.gen + 1])
    /\ reloaded' = TRUE
    /\ pc' = "reproject"
    /\ UNCHANGED <<call, argv, args, project, installCalls, installed, remapAtCheck,
                   rematerialized, compiler, zk_compiler, output, zk_output, passes,
                   stdout, result>>

\* line 87: project = config.project()?;
RematerializeProject ==
    /\ pc = "reproject"
    /\ rematerialized' = TRUE
    /\ \/ /\ project' = Some([of_config |-> config.val.gen])
          /\ pc' = "builder"
          /\ UNCHANGED result
       \/ /\ Fail("ProjectError")
          /\ UNCHANGED project
    /\ UNCHANGED <<call, argv, args, config, installCalls, installed, remapAtCheck, reloaded,
                   compiler, zk_compiler, output, zk_output, passes, stdout>>

\* lines 90-99: the primary pipeline and its skip filter
BuildCompiler ==
    /\ pc = "builder"
    /\ LET a == args.val
       IN IF a.skip.tag = "Some" /\ a.skip.val # <<>>
          THEN \/ /\ compiler' = Some([NewCompiler(a) EXCEPT !.filter = Some(a.skip.val)])
                  /\ pc' = "compile"
                  /\ UNCHANGED result
               \/ /\ Fail("SkipFilterConstructionFailure")
                  /\ UNCHANGED compiler
          ELSE /\ compiler' = Some(NewCompiler(a))
               /\ pc' = "compile"
               /\ UNCHANGED result
    /\ UNCHANGED <<call, argv, args, config, project, installCalls, installed, remapAtCheck,
                   reloaded, rematerialized, zk_compiler, output, zk_output, passes, stdout>>

Pass(backend, settings, ok) ==
    [backend |-> backend, project |-> project.val, settings |-> settings, ok |-> ok,
     installsBefore |-> installCalls, stdoutBefore |-> stdout]
Output(backend, settings) ==
    [backend |-> backend, project |-> project.val, settings |-> settings]

\* line 100: let output = compiler.compile(&project)?;
Compile ==
    /\ pc = "compile"
    /\ \/ /\ passes' = Append(passes, Pass("solc", compiler.val, TRUE))
          /\ output' = Some(Output("solc", compiler.val))
          /\ pc' = "emit"
          /\ UNCHANGED result
       \/ /\ passes' = Append(passes, Pass("solc", compiler.val, FALSE))
          /\ Fail("CompilationFailure")
          /\ UNCHANGED output
    /\ UNCHANGED <<call, argv, args, config, project, installCalls, installed, remapAtCheck,
                   reloaded, rematerialized, compiler, zk_compiler, zk_output, stdout>>

\* lines 102-104: print the primary output as pretty JSON
EmitPrimary ==
    /\ pc = "emit"
    /\ \/ /\ stdout' = EmitJson(args.val, output.val, stdout)
          /\ pc' = "zk_check"
          /\ UNCHANGED result
       \/ /\ args.val.format_json
          /\ Fail("SerializationFailure")
          /\ UNCHANGED stdout
    /\ UNCHANGED <<call, argv, args, config, project, installCalls, installed, remapAtCheck,
                   reloaded, rematerialized, compiler, zk_compiler, output, zk_output, passes>>

\* lines 106-111: if config.zksync, build the secondary pipeline
BuildZkCompiler ==
    /\ pc = "zk_check"
    /\ IF ZkEnabled(config.val)
       THEN /\ zk_compiler' = Some(NewCompiler(args.val))
            /\ pc' = "zk_compile"
       ELSE /\ pc' = "return"
            /\ UNCHANGED zk_compiler
    /\ UNCHANGED <<call, argv, args, config, project, installCalls, installed, remapAtCheck,
                   reloaded, rematerialized, compiler, output, zk_output, passes, stdout,
                   result>>

\* line 112: let zk_output = zk_compiler.zksync_compile(&project)?;
ZkCompile ==
    /\ pc = "zk_compile"
    /\ \/ /\ passes' = Append(passes, Pass("zksolc", zk_compiler.val, TRUE))
          /\ zk_output' = Some(Output("zksolc", zk_compiler.val))
          /\ pc' = "zk_emit"
          /\ UNCHANGED result
       \/ /\ passes' = Append(passes, Pass("zksolc", zk_compiler.val, FALSE))
          /\ Fail("CompilationFailure")
          /\ UNCHANGED zk_output
    /\ UNCHANGED <<call, argv, args, config, project, installCalls, installed, remapAtCheck,
                   reloaded, rematerialized, compiler, zk_compiler, output, stdout>>

\* lines 113-115: print the secondary output as pretty JSON
EmitSecondary ==
    /\ pc = "zk_emit"
    /\ \/ /\ stdout' = EmitJson(args.val, zk_output.val, stdout)
          /\ pc' = "return"
          /\ UNCHANGED result
       \/ /\ args.val.format_json
          /\ Fail("SerializationFailure")
          /\ UNCHANGED stdout
    /\ UNCHANGED <<call, argv, args, config, project, installCalls, installed, remapAtCheck,
                   reloaded, rematerialized, compiler, zk_compiler, output, zk_output, passes>>

\* line 118: Ok(output)
Return ==
    /\ pc = "return"
    /\ result' = ReturnValue(output, zk_output)
    /\ pc' = "done"
    /\ UNCHANGED <<call, argv, args, config, project, installCalls, installed, remapAtCheck,
                   reloaded, rematerialized, compiler, zk_compiler, output, zk_output,
                   passes, stdout>>

Next ==
    \/ Parse
    \/ LoadConfig
    \/ MaterializeProject
    \/ InstallMissingDependencies
    \/ ReloadConfig
    \/ RematerializeProject
    \/ BuildCompiler
    \/ Compile
    \/ EmitPrimary
    \/ BuildZkCompiler
    \/ ZkCompile
    \/ EmitSecondary
    \/ Return

Spec == Init /\ [][Next]_vars
SpecUtils == Init /\ [][NextUtils]_vars

(***************************************************************************)
(* Properties of BuildArgs::run                                            *)
(***************************************************************************)
Finished == pc = "done"
Reconfigure == installed /\ remapAtCheck
PrimaryProject == [of_config |-> 0]
ReloadedProject == [of_config |-> 1]
PassesOf(backend) == {i \in DOMAIN passes : passes[i].backend = backend}
ZkInvoked == PassesOf("zksolc") # {}
PrimaryOk == Len(passes) >= 1 /\ passes[1].backend = "solc" /\ passes[1].ok
AllPassesOk == \A i \in DOMAIN passes : passes[i].ok
PassesCompile(p) == \A i \in DOMAIN passes : passes[i].project = p
CheckedOnceBeforePasses ==
    /\ installCalls <= 1
    /\ \A i \in DOMAIN passes : passes[i].installsBefore = 1
\* the skip filter the request asks for
ExpectedFilter(a) == IF a.skip.tag = "Some" /\ a.skip.val # <<>> THEN Some(a.skip.val) ELSE None
ExpectedSettings(a) ==
    [print_names |-> a.names, print_sizes |-> a.sizes, quiet |-> a.format_json,
     bail |-> ~a.format_json, filter |-> ExpectedFilter(a)]
PrimaryDocs == IF args.val.format_json THEN <<Doc(output.val)>> ELSE <<>>

\* C1 as stated: the configuration is reloaded and the project handle
\* re-materialized iff the installer installed something and
\* auto_detect_remappings is set; every pass then compiles the re-materialized
\* project, otherwise the first one; the dependency check runs exactly once per
\* run and before any compilation.
C1_AsStated ==
    /\ CheckedOnceBeforePasses
    /\ PassesCompile(IF Reconfigure THEN ReloadedProject ELSE PrimaryProject)
    /\ Finished =>
         /\ installCalls = 1
         /\ (reloaded /\ project = Some(ReloadedProject)) <=> Reconfigure

\* C1 amended: the reload and the attempt to re-materialize happen iff the
\* installer installed something and auto_detect_remappings is set; a failed
\* re-materialization ends the run with an error and no compilation; the
\* passes compile the re-materialized project after a reload and the first one
\* otherwise; the dependency check runs exactly once in a run whose first
\* configuration load and project materialization succeed, never otherwise,
\* and before any compilation.
C1_Reconfiguration ==
    /\ CheckedOnceBeforePasses
    /\ PassesCompile(IF Reconfigure THEN ReloadedProject ELSE PrimaryProject)
    /\ Finished =>
         /\ (installCalls = 1) <=> (project # None)
         /\ reloaded <=> Reconfigure
         /\ rematerialized <=> Reconfigure
         /\ (Reconfigure /\ project # Some(ReloadedProject)) =>
               (passes = <<>> /\ result = Err("ProjectError"))
         /\ ~Reconfigure => project \in {None, Some(PrimaryProject)}

C1_Witness ==
    /\ Finished
    /\ Reconfigure
    /\ Len(passes) = 2
    /\ PassesCompile(ReloadedProject)

SequentialPasses ==
    /\ Len(passes) <= 2
    /\ \A i \in PassesOf("solc") : i = 1
    /\ \A i \in PassesOf("zksolc") :
         /\ i = 2
         /\ PrimaryOk
         /\ config.val.zksync
         /\ passes[i].stdoutBefore = PrimaryDocs
    /\ (Finished /\ result = Err("SkipFilterConstructionFailure")) => passes = <<>>
    /\ (Len(passes) >= 1 /\ ~passes[1].ok) => Len(passes) = 1

\* C2 as stated: the secondary compilation is invoked iff the configuration has
\* zksync set and the primary compilation returned without error; it starts
\* after the primary pass and its JSON document, the passes never interleave,
\* and a primary or skip-filter failure ends the run without it.
C2_AsStated ==
    /\ SequentialPasses
    /\ Finished => (ZkInvoked <=> (config.tag = "Some" /\ config.val.zksync /\ PrimaryOk))

\* C2 amended: the secondary compilation is invoked iff the configuration has
\* zksync set, the primary compilation returned without error and, with
\* format_json, the primary output was serialized; it starts after the primary
\* pass and its JSON document, the passes never interleave, and a primary or
\* skip-filter failure ends the run without it.
C2_SecondaryInvocation ==
    /\ SequentialPasses
    /\ Finished =>
         (ZkInvoked <=> /\ config.tag = "Some"
                        /\ config.val.zksync
                        /\ PrimaryOk
                        /\ ~(Len(passes) = 1 /\ result = Err("SerializationFailure")))

C2_Witness ==
    /\ Finished
    /\ ZkInvoked
    /\ args.val.format_json
    /\ passes[2].stdoutBefore = <<Doc(output.val)>>

\* C3: whenever the secondary pipeline is invoked it has the settings of the
\* primary pipeline of that run: names, sizes, quiet = format_json,
\* bail = ~format_json and the same skip filters (attached exactly when the
\* skip list is present and non-empty).
C3_SameSettings ==
    \A i \in DOMAIN passes :
        /\ passes[i].settings = ExpectedSettings(args.val)
        /\ passes[i].settings = passes[1].settings

\* C4: when the primary pass succeeds and the secondary pass fails, run returns
\* the error a failing primary pass returns, and what the primary pass produced
\* stays as it was: its output, and its JSON document on standard output.
C4_SecondaryFailure ==
    /\ (Finished /\ Len(passes) >= 1 /\ ~passes[Len(passes)].ok) =>
           result = Err("CompilationFailure")
    /\ (Finished /\ Len(passes) = 2 /\ ~passes[2].ok) =>
           /\ passes[1].ok
           /\ output = Some(Output("solc", passes[1].settings))
           /\ stdout = PrimaryDocs
           /\ zk_output = None

C4_Witness ==
    /\ Finished
    /\ Len(passes) = 2
    /\ ~passes[2].ok
    /\ stdout = <<Doc(output.val)>>

DocsOfPasses == [i \in DOMAIN passes |-> Doc(Output(passes[i].backend, passes[i].settings))]
JsonPerBackend ==
    /\ Len(passes) = IF config.val.zksync THEN 2 ELSE 1
    /\ stdout = IF args.val.format_json THEN DocsOfPasses ELSE <<>>
ReturnsPrimary == result.tag = "Ok" => (output.tag = "Some" /\ result.val = output.val
                                         /\ result.val.backend = "solc")

\* C5 as stated: with format_json a run whose invoked passes all return prints
\* exactly one pretty JSON document per compiled backend, primary first;
\* without format_json it prints none; on success run returns the primary output.
C5_AsStated ==
    /\ \A i \in DOMAIN stdout : stdout[i].fmt = "pretty_json"
    /\ (args.tag = "Some" /\ ~args.val.format_json) => stdout = <<>>
    /\ (Finished /\ passes # <<>> /\ AllPassesOk) => JsonPerBackend
    /\ Finished => ReturnsPrimary

\* C5 amended: with format_json a run that returns successfully prints exactly
\* one pretty JSON document per compiled backend, primary first (a failing
\* serialization ends the run with an error instead); without format_json a
\* run prints none; on success run returns the primary output.
C5_JsonDocuments ==
    /\ \A i \in DOMAIN stdout : stdout[i].fmt = "pretty_json"
    /\ (args.tag = "Some" /\ ~args.val.format_json) => stdout = <<>>
    /\ (Finished /\ result.tag = "Ok") => (passes # <<>> /\ AllPassesOk /\ JsonPerBackend)
    /\ (Finished /\ passes # <<>> /\ AllPassesOk /\ result.tag # "Ok") =>
           (args.val.format_json /\ result = Err("SerializationFailure"))
    /\ Finished => ReturnsPrimary

C5_Witness ==
    /\ Finished
    /\ result.tag = "Ok"
    /\ Len(stdout) = 2
    /\ stdout[1].of.backend = "solc"
    /\ stdout[2].of.backend = "zksolc"

\* C6: no build step ever runs with format_json and silent both set; that
\* combination is rejected by argument parsing with an argument-conflict error
\* before anything else happens, and every other combination is accepted.
C6_JsonSilentConflict ==
    /\ args.tag = "Some" => (args = argv /\ ~(args.val.format_json /\ args.val.silent))
    /\ pc = "rejected" =>
         /\ argv.val.format_json /\ argv.val.silent
         /\ result = Err("ArgumentConflict")
         /\ args = None /\ config = None /\ project = None /\ installCalls = 0
         /\ passes = <<>> /\ stdout = <<>>
    /\ (argv.tag = "Some" /\ pc # "rejected") => args = argv
    /\ (argv.tag = "Some" /\ argv.val.format_json /\ argv.val.silent) => pc = "rejected"

C6_Witness ==
    /\ pc = "rejected"
    /\ result = Err("ArgumentConflict")

(***************************************************************************)
(* Properties of the zk_utils helpers                                      *)
(***************************************************************************)
Called(fn) == call.fn = fn

\* C7: each resolver ends with a value or an error and nothing else: an absent
\* input gives the missing-parameter error, a URL that fails normalization the
\* invalid-URL error, a key that is not valid hex the key-encoding error, a
\* present chain is returned unchanged, and a returned key has 32 bytes.
C7_ResolversTotal ==
    /\ Called("get_rpc_url") =>
         /\ call.ret.tag \in {"Ok", "Err"}
         /\ call.arg.tag = "None" => call.ret = Err("RPC URL was not provided")
         /\ call.arg.tag = "Some" =>
              LET n == get_url_with_port(call.arg.val)
              IN call.ret = IF n.tag = "None" THEN Err("Invalid RPC_URL") ELSE Ok(n.val)
    /\ Called("get_private_key") =>
         /\ call.ret.tag \in {"Ok", "Err"}
         /\ call.arg.tag = "None" => call.ret = Err("Private key was not provided")
         /\ (call.arg.tag = "Some" /\ \E i \in DOMAIN call.arg.val : ~IsHexChar(call.arg.val[i]))
               => call.ret.tag = "Err"
         /\ call.ret.tag = "Ok" => Len(call.ret.val) = 32
    /\ Called("get_chain") =>
         /\ call.ret.tag \in {"Ok", "Err"}
         /\ call.arg.tag = "None" => call.ret = Err("Chain was not provided")
         /\ call.arg.tag = "Some" => call.ret = Ok(call.arg.val)

\* the port written in the input, when the input has one
GivenPort(u) == IF Len(u.port) > 1 THEN ParsePortFrom(Tail(u.port), 1, 0) ELSE Err("none")

\* C8: get_url_with_port returns no value when the string is not a URL or has
\* no host; otherwise scheme://host:port/path with the explicit port when one
\* is given, else 443 for https and 80 for any other scheme; a URL string with
\* an explicit port is returned unchanged.
C8_UrlWithPort ==
    Called("get_url_with_port") =>
        LET parsed == UrlParse(call.arg)
            given == GivenPort(call.parts)
        IN  IF parsed.tag = "Err" \/ parsed.val.host.tag = "None"
            THEN call.ret = None
            ELSE LET url == parsed.val
                     port == IF given.tag = "Ok" THEN given.val
                             ELSE IF url.scheme = https THEN 443 ELSE 80
                 IN /\ call.ret = Some(url.scheme \o <<":", "/", "/">> \o url.host.val
                                       \o <<":">> \o ToDec(port) \o url.path)
                    /\ given.tag = "Ok" => call.ret = Some(call.arg)

\* the integer a U256 stands for, when it is below 2^31
FitsInt(x) == x[2] < LimbBase \div 2 /\ \A i \in 3..U256Limbs : x[i] = 0
IntOf(x) == x[1] + x[2] * LimbBase
IsU256(x) == DOMAIN x = 1..U256Limbs /\ \A i \in 1..U256Limbs : x[i] \in 0..(LimbBase - 1)
RECURSIVE LessFrom(_, _, _)
LessFrom(a, b, i) == IF i = 0 THEN FALSE
                     ELSE IF a[i] # b[i] THEN a[i] < b[i] ELSE LessFrom(a, b, i - 1)
AtMost(a, b) == a = b \/ LessFrom(a, b, U256Limbs)

\* C9: fix_l2_gas_price(x) = max(x, 260,000,000) for every U256 x: at least
\* 260,000,000, x itself when x >= 260,000,000, unchanged by a second
\* application, monotone in x, and never an error.
C9_GasPriceFloor ==
    Called("fix_l2_gas_price") =>
        LET x == call.arg
            r == call.ret
        IN  /\ IsU256(r)
            /\ IF FitsInt(x) /\ IntOf(x) < 260000000
               THEN FitsInt(r) /\ IntOf(r) = 260000000
               ELSE r = x
            /\ ~(FitsInt(r) /\ IntOf(r) < 260000000)
            /\ fix_l2_gas_price(r) = r
            /\ \A y \in U256Samples :
                 /\ AtMost(x, y) => AtMost(r, fix_l2_gas_price(y))
                 /\ AtMost(y, x) => AtMost(fix_l2_gas_price(y), r)

C9_Witness ==
    /\ Called("fix_l2_gas_price")
    /\ FitsInt(call.arg)
    /\ IntOf(call.arg) = 260000000 - 1
    /\ IntOf(call.ret) = 260000000

====
